---- MODULE Spec2Model ----
(***************************************************************************)
(* State-machine model of WebRtcGateway (src/src/webrtc.gateway.ts, the    *)
(* gateway of lines 54-406): the presence table userInfo, the room         *)
(* registry roomParticipants / roomHosts, the cleanup timers, and the      *)
(* socket.io objects the handlers read (the connected sockets and the      *)
(* adapter's rooms).  Every handler is one atomic action: Node runs each   *)
(* handler to completion on its single thread.                             *)
(*                                                                         *)
(* Identifiers are integers: sessions 1..MaxSessions, rooms above them,    *)
(* display names 1..MaxNames.  A JS Map is a function whose DOMAIN is the  *)
(* set of keys present; a JS Set is a duplicate-free sequence in insertion *)
(* order (the order values().next() reads).  UserInfo.joinedAt is written  *)
(* and never read, and is left out.  A timer handle in cleanupTimers is    *)
(* "armed" until clearTimeout or its callback, and "fired" after; timeouts *)
(* counts, per room, the callbacks Node still has to run.  Date.now() is   *)
(* the variable now, in milliseconds.                                      *)
(*                                                                         *)
(* Spec is the room coordinator, SpecRate the rate limiter of              *)
(* handleConnection under a moving clock, SpecRelay the signalling relay,  *)
(* FairSpec is Spec with the timer callbacks run in the end.  The          *)
(* toggle-media and screen-share-status handlers only broadcast to a room  *)
(* and are left out.                                                       *)
(***************************************************************************)
EXTENDS Integers, Sequences, FiniteSets, TLC

MaxSessions == 2
MaxRooms == 2
MaxNames == 2
MaxOrigins == 2
MaxTicks == 2
MaxQuiet == 2

\* recentAttempts.length > 50
Limit == 50
\* now - time < 60000
WindowMs == 60000
\* oneHourAgo = now - 3600000
RetentionMs == 3600000

Sessions == 1..MaxSessions
Rooms == {MaxSessions + i : i \in 1..MaxRooms}
Names == 1..MaxNames
\* the addresses connections come from
Origins == 1..MaxOrigins
\* the clock moves in steps of half a rate-limit window
TickMs == WindowMs \div 2

VARIABLES
    sockets,           \* server.sockets.sockets: ids of the connected sockets
    closed,            \* ids of sockets that disconnected (an id is never reused)
    adapterRooms,      \* socket.io adapter: room id -> sockets joined to it
    userInfo,          \* Map socket id -> [roomId, userName]
    roomHosts,         \* Map room id -> socket id
    roomParticipants,  \* Map room id -> Set of socket ids (insertion order)
    cleanupTimers,     \* Map room id -> timer handle ("armed" or "fired")
    timeouts,          \* Node's timer queue: room id -> callbacks still to run
    connectionAttempts,\* Map address -> array of the times of allowed attempts
    now,               \* Date.now()
    emitted,           \* the emits of the last handler, in order
    cleared,           \* rooms whose pending callback the last handler cancelled
    last               \* the last event handled: <<name, client, arguments...>>

coord == <<userInfo, roomHosts, roomParticipants, cleanupTimers, timeouts>>
rate == <<connectionAttempts, now>>
vars == <<sockets, closed, adapterRooms, userInfo, roomHosts, roomParticipants,
          cleanupTimers, timeouts, connectionAttempts, now, emitted, cleared,
          last>>

---------------------------------------------------------------------------
(* JS Map and Set *)

MapHas(m, k) == k \in DOMAIN m
MapSet(m, k, v) == [x \in (DOMAIN m) \cup {k} |-> IF x = k THEN v ELSE m[x]]
MapDelete(m, k) == [x \in (DOMAIN m) \ {k} |-> m[x]]
EmptyMap == [x \in {} |-> x]

Range(q) == {q[i] : i \in 1..Len(q)}
SetAdd(q, x) == IF x \in Range(q) THEN q ELSE Append(q, x)
SetDelete(q, x) == SelectSeq(q, LAMBDA y : y # x)

\* the members of room r as a set ({} when the map has no entry)
Members(r) == IF MapHas(roomParticipants, r) THEN Range(roomParticipants[r]) ELSE {}

---------------------------------------------------------------------------
(* socket.io emits.  Every socket is in a room named by its own id.        *)

\* the sockets in the adapter room named id, sk being the connected sockets
InRoom(sk, ar, id) ==
    (IF id \in sk THEN {id} ELSE {}) \cup (IF id \in Rooms THEN ar[id] ELSE {})

\* socket.emit(event, payload) on the socket of a connected client
ClientEmit(client, event, payload) ==
    [event |-> event, to |-> client, except |-> {}, rcpt |-> {client},
     payload |-> payload]

\* this.server.to(id).emit(event, payload)
ServerTo(sk, ar, id, event, payload) ==
    [event |-> event, to |-> id, except |-> {}, rcpt |-> InRoom(sk, ar, id),
     payload |-> payload]

\* client.to(roomId).emit(event, payload): the room without the sender
ClientTo(sk, ar, client, roomId, event, payload) ==
    [event |-> event, to |-> roomId, except |-> {client},
     rcpt |-> InRoom(sk, ar, roomId) \ {client}, payload |-> payload]

---------------------------------------------------------------------------
(* handleConnection / cleanupConnectionTracking *)

\* client.handshake.address of the sockets that take part in rooms
Address(client) == 1 + (client % MaxOrigins)

\* this.connectionAttempts.get(ip) || []
AttemptsOf(ca, ip) == IF MapHas(ca, ip) THEN ca[ip] ELSE <<>>

\* a limiter that never forgets an attempt
RecentAttemptsAll(attempts, t) == attempts

\* attempts.filter(time => now - time < 60000)
RecentAttempts(attempts, t) == SelectSeq(attempts, LAMBDA time : t - time < WindowMs)

\* recentAttempts.length > 50
RateExceeded(recentAttempts) == Len(recentAttempts) > Limit

\* handleConnection for a socket from address ip at time t: the verdict and
\* the new connectionAttempts (a denied attempt is not recorded)
HandleConnection(ca, ip, t) ==
    LET recentAttempts == RecentAttempts(AttemptsOf(ca, ip), t)
    IN  IF RateExceeded(recentAttempts)
        THEN [allowed |-> FALSE, ca |-> ca]
        ELSE [allowed |-> TRUE, ca |-> MapSet(ca, ip, Append(recentAttempts, t))]

\* cleanupConnectionTracking at time t
CleanupConnectionTracking(ca, t) ==
    LET recentAttempts(ip) == SelectSeq(ca[ip], LAMBDA time : time > t - RetentionMs)
    IN  [ip \in {x \in DOMAIN ca : Len(recentAttempts(x)) > 0} |->
            recentAttempts(ip)]

---------------------------------------------------------------------------
(* handleJoin / joinRoom *)

\* a gateway without the duplicate-join check
AlreadyJoinedNever(client, roomId) == FALSE

\* existingUser && existingUser.roomId === roomId
AlreadyJoined(client, roomId) ==
    MapHas(userInfo, client) /\ userInfo[client].roomId = roomId

\* a gateway that takes every room for an empty one
NumClientsZero(rp, roomId) == 0

\* a gateway that takes a room without an entry for an occupied one
NumClientsNoEntry(rp, roomId) == IF MapHas(rp, roomId) THEN Len(rp[roomId]) ELSE 1

\* participants ? participants.size : 0
NumClients(rp, roomId) == IF MapHas(rp, roomId) THEN Len(rp[roomId]) ELSE 0

\* hostId || participants?.values().next().value, as <<>> or <<id>>
TargetHostId(roomId) ==
    IF MapHas(roomHosts, roomId) THEN <<roomHosts[roomId]>>
    ELSE IF MapHas(roomParticipants, roomId) /\ Len(roomParticipants[roomId]) > 0
         THEN <<roomParticipants[roomId][1]>>
         ELSE <<>>

\* a joinRoom that lists the client among the existing users
ExistingUsersWithSelf(ui, participants, client) ==
    LET kept == SelectSeq(participants, LAMBDA s : MapHas(ui, s))
    IN  [i \in 1..Len(kept) |-> <<kept[i], ui[kept[i]].userName>>]

\* the existingUsers array: the participants that have a userInfo entry and
\* are not the client, in the Set's order, as <<userId, userName>> pairs
ExistingUsers(ui, participants, client) ==
    LET kept == SelectSeq(participants, LAMBDA s : MapHas(ui, s) /\ s # client)
    IN  [i \in 1..Len(kept) |-> <<kept[i], ui[kept[i]].userName>>]

\* joinRoom(client, roomId, userName) run on userInfo ui, roomParticipants rp
\* and adapter rooms ar: the new rp and ar and the emits
JoinRoom(ui, rp, ar, client, roomId, userName) ==
    LET participants == IF MapHas(rp, roomId) THEN rp[roomId] ELSE <<>>
        existingUsers == ExistingUsers(ui, participants, client)
        ar2 == [ar EXCEPT ![roomId] = @ \cup {client}]
    IN  [rp |-> MapSet(rp, roomId, SetAdd(participants, client)),
         ar |-> ar2,
         out |-> (IF Len(existingUsers) > 0
                  THEN <<ClientEmit(client, "existing-users", existingUsers)>>
                  ELSE <<>>)
                 \o <<ClientTo(sockets, ar2, client, roomId, "user-joined",
                               <<client, userName>>)>>]

\* a gateway that announces the applicant to the whole room
PendingEmitsToRoom(client, roomId, userName, targetHostId) ==
    << ClientEmit(client, "waiting-for-approval", <<>>),
       ServerTo(sockets, adapterRooms, roomId, "join-request",
                <<client, userName>>) >>

\* the emits of the approval branch: waiting-for-approval to the client,
\* join-request to the target host
PendingEmits(client, roomId, userName, targetHostId) ==
    << ClientEmit(client, "waiting-for-approval", <<>>),
       ServerTo(sockets, adapterRooms, targetHostId, "join-request",
                <<client, userName>>) >>

\* the join-room event
HandleJoin(client, roomId, userName) ==
    /\ client \in sockets
    /\ last' = <<"join-room", client, roomId, userName>>
    /\ cleared' = {}
    /\ UNCHANGED <<sockets, closed, cleanupTimers, timeouts, rate>>
    /\ IF AlreadyJoined(client, roomId)
       THEN /\ emitted' = <<>>
            /\ UNCHANGED <<adapterRooms, userInfo, roomHosts, roomParticipants>>
       ELSE LET ui == MapSet(userInfo, client,
                             [roomId |-> roomId, userName |-> userName])
                j == JoinRoom(ui, roomParticipants, adapterRooms, client, roomId,
                              userName)
                targetHostId == TargetHostId(roomId)
            IN  /\ userInfo' = ui
                /\ IF NumClients(roomParticipants, roomId) = 0
                   THEN /\ roomHosts' = MapSet(roomHosts, roomId, client)
                        /\ roomParticipants' = j.rp
                        /\ adapterRooms' = j.ar
                        /\ emitted' = j.out
                   ELSE IF targetHostId # <<>>
                   THEN /\ emitted' = PendingEmits(client, roomId, userName,
                                                   targetHostId[1])
                        /\ UNCHANGED <<adapterRooms, roomHosts, roomParticipants>>
                   ELSE /\ roomParticipants' = j.rp
                        /\ adapterRooms' = j.ar
                        /\ emitted' = j.out
                        /\ UNCHANGED roomHosts

---------------------------------------------------------------------------
(* handleAdmit / handleReject *)

\* a gateway that admits on anyone's word
AdmitFromAnyone(client, roomId) == TRUE

\* handleAdmit's check: not (hostId !== client.id)
AdmitFromHost(client, roomId) ==
    MapHas(roomHosts, roomId) /\ roomHosts[roomId] = client

\* a gateway that rejects on anyone's word
RejectFromAnyone(client, roomId) == TRUE

\* handleReject's check: not (hostId !== client.id)
RejectFromHost(client, roomId) ==
    MapHas(roomHosts, roomId) /\ roomHosts[roomId] = client

\* the admit-user event
HandleAdmit(client, userId, roomId) ==
    /\ client \in sockets
    /\ last' = <<"admit-user", client, roomId, userId>>
    /\ cleared' = {}
    /\ UNCHANGED <<sockets, closed, userInfo, roomHosts, cleanupTimers, timeouts,
                   rate>>
    /\ IF AdmitFromHost(client, roomId) /\ userId \in sockets
             /\ MapHas(userInfo, userId)
       THEN LET j == JoinRoom(userInfo, roomParticipants, adapterRooms, userId,
                              roomId, userInfo[userId].userName)
            IN  /\ roomParticipants' = j.rp
                /\ adapterRooms' = j.ar
                /\ emitted' = j.out \o <<ClientEmit(userId, "join-approved", <<>>)>>
       ELSE /\ emitted' = <<>>
            /\ UNCHANGED <<adapterRooms, roomParticipants>>

\* the reject-user event
HandleReject(client, userId, roomId) ==
    /\ client \in sockets
    /\ last' = <<"reject-user", client, roomId, userId>>
    /\ cleared' = {}
    /\ UNCHANGED <<sockets, closed, adapterRooms, roomHosts, roomParticipants,
                   cleanupTimers, timeouts, rate>>
    /\ IF RejectFromHost(client, roomId) /\ userId \in sockets
       THEN /\ emitted' = <<ClientEmit(userId, "join-rejected", <<>>)>>
            /\ userInfo' = MapDelete(userInfo, userId)
       ELSE /\ emitted' = <<>>
            /\ UNCHANGED userInfo

---------------------------------------------------------------------------
(* handleOffer / handleAnswer / handleIce.  data.to is whatever id the     *)
(* client sends: a socket id, connected or not, or a room id.  Of the      *)
(* payload only the from field is kept; the SDP or candidate and the       *)
(* userName are passed through as received.                                *)

\* the ids a client can name as destination
Destinations == Sessions \cup Rooms

\* a relay that answers the sender
RelayToSender(client, event, to) ==
    ServerTo(sockets, adapterRooms, client, event, <<client>>)

\* this.server.to(data.to).emit(event, {from: client.id, ...})
RelayEmit(client, event, to) ==
    ServerTo(sockets, adapterRooms, to, event, <<client>>)

\* the offer event
HandleOffer(client, to) ==
    /\ client \in sockets
    /\ last' = <<"offer", client, to>>
    /\ emitted' = <<RelayEmit(client, "offer", to)>>
    /\ cleared' = {}
    /\ UNCHANGED <<sockets, closed, adapterRooms, coord, rate>>

\* the answer event
HandleAnswer(client, to) ==
    /\ client \in sockets
    /\ last' = <<"answer", client, to>>
    /\ emitted' = <<RelayEmit(client, "answer", to)>>
    /\ cleared' = {}
    /\ UNCHANGED <<sockets, closed, adapterRooms, coord, rate>>

\* the ice-candidate event
HandleIce(client, to) ==
    /\ client \in sockets
    /\ last' = <<"ice-candidate", client, to>>
    /\ emitted' = <<RelayEmit(client, "ice-candidate", to)>>
    /\ cleared' = {}
    /\ UNCHANGED <<sockets, closed, adapterRooms, coord, rate>>

---------------------------------------------------------------------------
(* handleUserLeave / scheduleRoomCleanup *)

\* a scheduleRoomCleanup that arms without cancelling
ClearTimeoutNone(tq, ct, roomId) == tq

\* if (existingTimer) clearTimeout(existingTimer): the callback of a handle
\* still armed leaves the timer queue; on a fired handle nothing happens
ClearTimeout(tq, ct, roomId) ==
    IF MapHas(ct, roomId) /\ ct[roomId] = "armed"
    THEN [tq EXCEPT ![roomId] = @ - 1]
    ELSE tq

\* setTimeout(callback, 30000): one more callback to run for the room
SetTimeout(tq, roomId) == [tq EXCEPT ![roomId] = @ + 1]

\* the rooms whose pending callback scheduleRoomCleanup(roomId) cancels
Cancelled(tq, ct, roomId) ==
    IF ClearTimeout(tq, ct, roomId) # tq THEN {roomId} ELSE {}

\* scheduleRoomCleanup(roomId) on the map: the new armed handle takes the
\* place of the one in the map, if any
ScheduleRoomCleanup(ct, roomId) == MapSet(ct, roomId, "armed")

\* a gateway that leaves the host pointer alone when the host leaves
HostAfterLeaveKept(rh, client, roomId, remaining) == rh

\* a gateway that names no new host when the host leaves
HostAfterLeaveCleared(rh, client, roomId, remaining) ==
    IF MapHas(rh, roomId) /\ rh[roomId] = client THEN MapDelete(rh, roomId) ELSE rh

\* the host block of handleUserLeave: rh is roomHosts, remaining the room's
\* Set after the delete (<<>> when the room had no entry)
HostAfterLeave(rh, client, roomId, remaining) ==
    IF MapHas(rh, roomId) /\ rh[roomId] = client
    THEN IF Len(remaining) > 0
         THEN MapSet(rh, roomId, remaining[1])
         ELSE MapDelete(rh, roomId)
    ELSE rh

\* a gateway that drops the room's Set whoever leaves
ParticipantsAfterLeaveDropped(rp, client, roomId) == MapDelete(rp, roomId)

\* roomParticipants after handleUserLeave's cache update
ParticipantsAfterLeave(rp, client, roomId) ==
    IF MapHas(rp, roomId)
    THEN LET participants == SetDelete(rp[roomId], client)
         IN  IF Len(participants) = 0
             THEN MapDelete(rp, roomId)
             ELSE MapSet(rp, roomId, participants)
    ELSE rp

\* handleUserLeave(client, roomId) with sk the connected sockets and ar the
\* adapter rooms at the call
UserLeave(sk, ar, client, roomId) ==
    LET remaining == IF MapHas(roomParticipants, roomId)
                     THEN SetDelete(roomParticipants[roomId], client)
                     ELSE <<>>
        ar2 == [ar EXCEPT ![roomId] = @ \ {client}]
        left == ClientTo(sk, ar2, client, roomId, "user-left",
                         IF MapHas(userInfo, client)
                         THEN <<client, userInfo[client].userName>>
                         ELSE <<client>>)
        hostLeft == MapHas(roomHosts, roomId) /\ roomHosts[roomId] = client
    IN  [rp |-> ParticipantsAfterLeave(roomParticipants, client, roomId),
         ar |-> ar2,
         ui |-> MapDelete(userInfo, client),
         rh |-> HostAfterLeave(roomHosts, client, roomId, remaining),
         ct |-> ScheduleRoomCleanup(cleanupTimers, roomId),
         tq |-> SetTimeout(ClearTimeout(timeouts, cleanupTimers, roomId), roomId),
         cl |-> Cancelled(timeouts, cleanupTimers, roomId),
         out |-> <<left>> \o
                 (IF hostLeft /\ Len(remaining) > 0
                  THEN <<ServerTo(sk, ar2, remaining[1], "host-assigned",
                                  <<roomId>>)>>
                  ELSE <<>>)]

\* the leave-room event
HandleLeave(client, roomId) ==
    /\ client \in sockets
    /\ last' = <<"leave-room", client, roomId>>
    /\ UNCHANGED <<sockets, closed, rate>>
    /\ LET l == UserLeave(sockets, adapterRooms, client, roomId)
       IN  /\ roomParticipants' = l.rp
           /\ adapterRooms' = l.ar
           /\ userInfo' = l.ui
           /\ roomHosts' = l.rh
           /\ cleanupTimers' = l.ct
           /\ timeouts' = l.tq
           /\ cleared' = l.cl
           /\ emitted' = l.out

\* handleDisconnect: socket.io has removed the socket from the server and
\* from every adapter room before the gateway is called
HandleDisconnect(client) ==
    /\ client \in sockets
    /\ last' = <<"disconnect", client>>
    /\ sockets' = sockets \ {client}
    /\ closed' = closed \cup {client}
    /\ connectionAttempts' = CleanupConnectionTracking(connectionAttempts, now)
    /\ UNCHANGED now
    /\ LET ar1 == [r \in Rooms |-> adapterRooms[r] \ {client}]
       IN  IF MapHas(userInfo, client)
           THEN LET l == UserLeave(sockets \ {client}, ar1, client,
                                   userInfo[client].roomId)
                IN  /\ roomParticipants' = l.rp
                    /\ adapterRooms' = l.ar
                    /\ userInfo' = l.ui
                    /\ roomHosts' = l.rh
                    /\ cleanupTimers' = l.ct
                    /\ timeouts' = l.tq
                    /\ cleared' = l.cl
                    /\ emitted' = l.out
           ELSE /\ adapterRooms' = ar1
                /\ emitted' = <<>>
                /\ cleared' = {}
                /\ UNCHANGED coord

\* a callback that cleans the room whatever is in it
RoomEmptyAlways(rp, roomId) == TRUE

\* a callback that cleans only a room whose entry is still in the map
RoomEmptyStrict(rp, roomId) == MapHas(rp, roomId) /\ Len(rp[roomId]) = 0

\* the callback's test: !participants || participants.size === 0
RoomEmpty(rp, roomId) == ~MapHas(rp, roomId) \/ Len(rp[roomId]) = 0

\* the setTimeout callback of scheduleRoomCleanup firing for roomId
CleanupTimer(roomId) ==
    /\ timeouts[roomId] > 0
    /\ timeouts' = [timeouts EXCEPT ![roomId] = @ - 1]
    /\ last' = <<"cleanup-timer", roomId>>
    /\ emitted' = <<>>
    /\ cleared' = {}
    /\ UNCHANGED <<sockets, closed, adapterRooms, userInfo, rate>>
    /\ IF RoomEmpty(roomParticipants, roomId)
       THEN /\ roomParticipants' = MapDelete(roomParticipants, roomId)
            /\ roomHosts' = MapDelete(roomHosts, roomId)
            /\ cleanupTimers' = MapDelete(cleanupTimers, roomId)
       ELSE /\ cleanupTimers' = MapSet(cleanupTimers, roomId, "fired")
            /\ UNCHANGED <<roomParticipants, roomHosts>>

---------------------------------------------------------------------------
Init ==
    /\ sockets = {}
    /\ closed = {}
    /\ adapterRooms = [r \in Rooms |-> {}]
    /\ userInfo = EmptyMap
    /\ roomHosts = EmptyMap
    /\ roomParticipants = EmptyMap
    /\ cleanupTimers = EmptyMap
    /\ timeouts = [r \in Rooms |-> 0]
    /\ connectionAttempts = EmptyMap
    /\ now = 0
    /\ emitted = <<>>
    /\ cleared = {}
    /\ last = <<"init">>

\* a socket with a fresh id connects and handleConnection runs for it; a
\* socket the rate limiter turns away is closed at once
Connect(client) ==
    /\ client \notin sockets
    /\ client \notin closed
    /\ LET c == HandleConnection(connectionAttempts, Address(client), now)
       IN  /\ connectionAttempts' = c.ca
           /\ IF c.allowed
              THEN sockets' = sockets \cup {client} /\ UNCHANGED closed
              ELSE closed' = closed \cup {client} /\ UNCHANGED sockets
    /\ emitted' = <<>>
    /\ cleared' = {}
    /\ last' = <<"connect", client>>
    /\ UNCHANGED <<now, adapterRooms, coord>>

Next ==
    \/ \E client \in Sessions : Connect(client)
    \/ \E client \in Sessions, roomId \in Rooms, userName \in Names :
          HandleJoin(client, roomId, userName)
    \/ \E client \in Sessions, userId \in Sessions, roomId \in Rooms :
          HandleAdmit(client, userId, roomId)
    \/ \E client \in Sessions, userId \in Sessions, roomId \in Rooms :
          HandleReject(client, userId, roomId)
    \/ \E client \in Sessions, roomId \in Rooms :
          HandleLeave(client, roomId)
    \/ \E client \in Sessions : HandleDisconnect(client)
    \/ \E roomId \in Rooms : CleanupTimer(roomId)

Spec == Init /\ [][Next]_vars

---------------------------------------------------------------------------
(* The rate limiter on its own: connections of sockets that send no event, *)
(* while the clock moves.                                                  *)

\* handleConnection for a socket from address ip; addresses other than the
\* first make few attempts
Attempt(ip) ==
    /\ ip = 1 \/ Len(AttemptsOf(connectionAttempts, ip)) < MaxQuiet
    /\ LET c == HandleConnection(connectionAttempts, ip, now)
       IN  /\ connectionAttempts' = c.ca
           /\ last' = <<"connection", ip,
                        IF c.allowed THEN "allowed" ELSE "denied",
                        Len(AttemptsOf(connectionAttempts, ip))>>
    /\ UNCHANGED <<now, sockets, closed, adapterRooms, coord, emitted, cleared>>

\* handleDisconnect for a socket without a presence entry
Sweep ==
    /\ connectionAttempts' = CleanupConnectionTracking(connectionAttempts, now)
    /\ last' = <<"sweep">>
    /\ UNCHANGED <<now, sockets, closed, adapterRooms, coord, emitted, cleared>>

\* Date.now() moves on
Tick ==
    /\ now < MaxTicks * TickMs
    /\ now' = now + TickMs
    /\ last' = <<"tick">>
    /\ UNCHANGED <<connectionAttempts, sockets, closed, adapterRooms, coord,
                   emitted, cleared>>

NextRate ==
    \/ \E ip \in Origins : Attempt(ip)
    \/ Sweep
    \/ Tick

SpecRate == Init /\ [][NextRate]_vars

---------------------------------------------------------------------------
(* Signalling: offer, answer and ice-candidate between sessions that       *)
(* connect, join rooms, are admitted, leave and disconnect (no reject-user *)
(* and no cleanup callback here).  The three handlers change no state, so  *)
(* that Spec reaches the same states of the gateway without them.          *)
NextRelay ==
    \/ \E client \in Sessions : Connect(client)
    \/ \E client \in Sessions, roomId \in Rooms, userName \in Names :
          HandleJoin(client, roomId, userName)
    \/ \E client \in Sessions, userId \in Sessions, roomId \in Rooms :
          HandleAdmit(client, userId, roomId)
    \/ \E client \in Sessions, roomId \in Rooms :
          HandleLeave(client, roomId)
    \/ \E client \in Sessions : HandleDisconnect(client)
    \/ \E client \in Sessions, to \in Destinations : HandleOffer(client, to)
    \/ \E client \in Sessions, to \in Destinations : HandleAnswer(client, to)
    \/ \E client \in Sessions, to \in Destinations : HandleIce(client, to)

SpecRelay == Init /\ [][NextRelay]_vars

---------------------------------------------------------------------------
(* Node runs the callback of every setTimeout that is not cancelled: a     *)
(* cleanup callback that stays pending is run in the end.                  *)
FairSpec == Spec /\ \A r \in Rooms : WF_vars(CleanupTimer(r))

---------------------------------------------------------------------------
(* Vocabulary of the properties *)

\* room r has a recorded host and it is h
HostIs(r, h) == MapHas(roomHosts, r) /\ roomHosts[r] = h

\* s is pending approval for r: its presence entry names r, it is no member
Pending(s, r) ==
    MapHas(userInfo, s) /\ userInfo[s].roomId = r /\ s \notin Members(r)

\* s has no presence entry for r
NoPresenceFor(s, r) == ~(MapHas(userInfo, s) /\ userInfo[s].roomId = r)

\* room r has a cleanup callback that has neither run nor been cancelled
CleanupPending(r) == timeouts[r] > 0

\* nothing is left of room r: no member set, no host, no cleanup task
Reclaimed(r) ==
    /\ ~MapHas(roomParticipants, r)
    /\ ~MapHas(roomHosts, r)
    /\ ~MapHas(cleanupTimers, r)
    /\ ~CleanupPending(r)

\* how many of the recorded attempts of address ip are less than a window old
InWindow(ip) ==
    LET attempts == AttemptsOf(connectionAttempts, ip)
    IN  Cardinality({i \in 1..Len(attempts) : now - attempts[i] < WindowMs})

\* m and s are members of room r and m was added before s: m was in the
\* room when s joined it, and has been since
JoinedBefore(r, m, s) ==
    /\ MapHas(roomParticipants, r)
    /\ \E i \in 1..Len(roomParticipants[r]) :
          /\ roomParticipants[r][i] = m
          /\ \E j \in (i + 1)..Len(roomParticipants[r]) : roomParticipants[r][j] = s

\* the emits of the last handler named event
EmitsOf(out, event) == SelectSeq(out, LAMBDA e : e.event = event)

---------------------------------------------------------------------------
(* C1: in every reachable state each session is an element of at most one  *)
(* room's member set.                                                      *)
C1_AtMostOneRoom ==
    \A s \in Sessions : Cardinality({r \in Rooms : s \in Members(r)}) <= 1

(* C2: in every reachable state, every room with a non-empty member set    *)
(* has a recorded host, and that host is an element of the member set.     *)
C2_HostIsMember ==
    \A r \in Rooms :
        Members(r) # {} => MapHas(roomHosts, r) /\ roomHosts[r] \in Members(r)

\* a host left a room that kept members: the handover has run
C2_Witness ==
    /\ last[1] \in {"leave-room", "disconnect"}
    /\ EmitsOf(emitted, "host-assigned") # <<>>
    /\ \E r \in Rooms : Members(r) # {} /\ HostIs(r, emitted[2].to)

(* C3: once handleDisconnect for a session has completed, the session has  *)
(* no presence entry, is in no room's member set and is the recorded host  *)
(* of no room.                                                             *)
C3_DisconnectPurges ==
    last[1] = "disconnect" =>
        /\ ~MapHas(userInfo, last[2])
        /\ \A r \in Rooms : last[2] \notin Members(r) /\ ~HostIs(r, last[2])

(* C4: a session is added to the member set of a room that already has a   *)
(* member only by an admit-user event for that session and room issued by  *)
(* the session that is the room's recorded host at that moment.            *)
C4_OnlyHostAdmits ==
    [][\A r \in Rooms, s \in Sessions :
          (Members(r) # {} /\ s \notin Members(r) /\ s \in Members(r)')
          => /\ MapHas(roomHosts, r)
             /\ last' = <<"admit-user", roomHosts[r], r, s>>]_vars

\* the host has admitted an applicant into its room
C4_Witness ==
    /\ last[1] = "admit-user"
    /\ HostIs(last[3], last[2])
    /\ last[4] # last[2]
    /\ {last[2], last[4]} \subseteq Members(last[3])
    /\ EmitsOf(emitted, "join-approved") # <<>>

(* C5: a join-room for a room with a non-empty member set, from a session  *)
(* with no presence entry for that room, leaves the member sets unchanged, *)
(* sends waiting-for-approval to the requester, and sends exactly one      *)
(* join-request, carrying the requester's id and display name, to the      *)
(* room's recorded host.                                                   *)
C5_PendingJoin ==
    [][\A c \in Sessions, r \in Rooms, n \in Names :
          (last' = <<"join-room", c, r, n>> /\ Members(r) # {}
              /\ NoPresenceFor(c, r))
          => /\ roomParticipants' = roomParticipants
             /\ MapHas(roomHosts, r)
             /\ Len(emitted') = 2
             /\ emitted'[1].event = "waiting-for-approval"
             /\ emitted'[1].rcpt = {c}
             /\ emitted'[2].event = "join-request"
             /\ emitted'[2].to = roomHosts[r]
             /\ emitted'[2].payload = <<c, n>>]_vars

\* an applicant waits and its join-request has reached the host
C5_Witness ==
    /\ last[1] = "join-room"
    /\ last[2] \notin Members(last[3])
    /\ EmitsOf(emitted, "join-request") # <<>>
    /\ HostIs(last[3], emitted[2].to)
    /\ emitted[2].rcpt = {roomHosts[last[3]]}

(* C6: a join-room for a room that is absent or has no member, from a      *)
(* session with no presence entry for that room, makes the requester the   *)
(* room's recorded host and a member at once, with no approval step.       *)
C6_EmptyRoomJoin ==
    [][\A c \in Sessions, r \in Rooms, n \in Names :
          (last' = <<"join-room", c, r, n>> /\ Members(r) = {}
              /\ NoPresenceFor(c, r))
          => /\ MapHas(roomHosts', r)
             /\ roomHosts'[r] = c
             /\ Members(r)' = {c}
             /\ EmitsOf(emitted', "waiting-for-approval") = <<>>
             /\ EmitsOf(emitted', "join-request") = <<>>]_vars

\* a session has founded a room
C6_Witness ==
    /\ last[1] = "join-room"
    /\ HostIs(last[3], last[2])
    /\ Members(last[3]) = {last[2]}
    /\ EmitsOf(emitted, "user-joined") # <<>>

(* C7: when the recorded host of room R issues admit-user for a session B  *)
(* pending approval for R, B becomes a member of R, B is sent              *)
(* existing-users listing the prior members and join-approved, and every   *)
(* prior member is sent user-joined for B.                                 *)
C7_ApprovalRoundTrip ==
    [][\A a \in Sessions, b \in Sessions, r \in Rooms :
          (last' = <<"admit-user", a, r, b>> /\ HostIs(r, a) /\ Pending(b, r))
          => /\ b \in Members(r)'
             /\ \E i \in 1..Len(emitted') :
                   /\ emitted'[i].event = "existing-users"
                   /\ emitted'[i].rcpt = {b}
                   /\ {u[1] : u \in Range(emitted'[i].payload)} = Members(r)
             /\ \E i \in 1..Len(emitted') :
                   /\ emitted'[i].event = "join-approved"
                   /\ emitted'[i].rcpt = {b}
             /\ \E i \in 1..Len(emitted') :
                   /\ emitted'[i].event = "user-joined"
                   /\ emitted'[i].payload[1] = b
                   /\ Members(r) \subseteq emitted'[i].rcpt]_vars

(* C8: an admit-user or reject-user for room R from a session that is not  *)
(* R's recorded host changes no coordinator state (presence table, member  *)
(* sets, hosts, cleanup timers) and emits no notification.                 *)
C8_UnauthorizedIgnored ==
    [][\A c \in Sessions, u \in Sessions, r \in Rooms :
          (last' \in {<<"admit-user", c, r, u>>, <<"reject-user", c, r, u>>}
              /\ ~HostIs(r, c))
          => /\ UNCHANGED coord
             /\ emitted' = <<>>]_vars

\* a session that hosts nothing has tried to reject a session with a
\* presence entry
C8_Witness ==
    /\ last[1] = "reject-user"
    /\ ~HostIs(last[3], last[2])
    /\ MapHas(userInfo, last[4])
    /\ MapHas(roomHosts, last[3])
    /\ emitted = <<>>

(* C9: a reject-user accepted from room R's host for a session pending     *)
(* approval for R sends the session join-rejected, deletes its presence    *)
(* entry, and leaves it an element of no room's member set.                *)
C9_RejectDeparts ==
    [][\A h \in Sessions, b \in Sessions, r \in Rooms :
          (last' = <<"reject-user", h, r, b>> /\ HostIs(r, h) /\ Pending(b, r))
          => /\ \E i \in 1..Len(emitted') :
                   /\ emitted'[i].event = "join-rejected"
                   /\ emitted'[i].rcpt = {b}
             /\ ~MapHas(userInfo', b)
             /\ \A q \in Rooms : b \notin Members(q)']_vars

(* C10: a join-room with the roomId that the session's presence entry      *)
(* already names changes no state and emits no notification.               *)
C10_JoinIdempotent ==
    [][\A c \in Sessions, r \in Rooms, n \in Names :
          (last' = <<"join-room", c, r, n>> /\ MapHas(userInfo, c)
              /\ userInfo[c].roomId = r)
          => /\ UNCHANGED <<sockets, closed, adapterRooms, coord>>
             /\ emitted' = <<>>]_vars

\* a duplicate join has been suppressed
C10_Witness ==
    /\ last[1] = "join-room"
    /\ MapHas(userInfo, last[2])
    /\ userInfo[last[2]].roomId = last[3]
    /\ emitted = <<>>

(* C11: whenever the recorded host of room R disconnects while R has other *)
(* members, after the disconnect handling the recorded host of R is one of *)
(* the remaining members, that member has been sent host-assigned for R,   *)
(* and R's member set no longer contains the departed session.             *)
C11_HostHandover ==
    [][\A h \in Sessions, r \in Rooms :
          (last' = <<"disconnect", h>> /\ HostIs(r, h) /\ Members(r) \ {h} # {})
          => /\ MapHas(roomHosts', r)
             /\ roomHosts'[r] \in Members(r) \ {h}
             /\ h \notin Members(r)'
             /\ \E i \in 1..Len(emitted') :
                   /\ emitted'[i].event = "host-assigned"
                   /\ emitted'[i].payload = <<r>>
                   /\ emitted'[i].rcpt = {roomHosts'[r]}]_vars

(* C12: if the last member of room R leaves and no session joins R         *)
(* afterwards, then, the cleanup callback being run in the end, a state is *)
(* reached in which R has no member set, no recorded host and no cleanup   *)
(* task.                                                                   *)
C12_EmptyRoomReclaimed ==
    \A r \in Rooms :
        (Members(r) = {} /\ CleanupPending(r)) ~> (Reclaimed(r) \/ Members(r) # {})

\* the callback has run for a room whose last member had left, and nothing
\* is left of the room
C12_Witness ==
    /\ last[1] = "cleanup-timer"
    /\ Reclaimed(last[2])
    /\ closed # {}
    /\ \A s \in Sessions : NoPresenceFor(s, last[2])

(* C13: if room R became empty and a session joins R before R's pending    *)
(* cleanup task fires, the join cancels the reclamation (no cleanup task   *)
(* for R remains pending), the room is reused and the new joiner is R's    *)
(* host and member.                                                        *)
C13_JoinCancelsCleanup ==
    [][\A c \in Sessions, r \in Rooms, n \in Names :
          (last' = <<"join-room", c, r, n>> /\ Members(r) = {}
              /\ CleanupPending(r) /\ NoPresenceFor(c, r))
          => /\ ~CleanupPending(r)'
             /\ HostIs(r, c)'
             /\ c \in Members(r)']_vars

(* C13, amended: if room R became empty and a session joins R before R's   *)
(* pending cleanup task fires, the join leaves the task pending, the room  *)
(* is reused and the new joiner is R's host and member; when the task      *)
(* fires while R has members it changes neither R's member set nor R's     *)
(* host.                                                                   *)
C13_JoinOutlivesCleanup ==
    [][/\ \A c \in Sessions, r \in Rooms, n \in Names :
             (last' = <<"join-room", c, r, n>> /\ Members(r) = {}
                 /\ CleanupPending(r) /\ NoPresenceFor(c, r))
             => /\ CleanupPending(r)'
                /\ UNCHANGED <<cleanupTimers, timeouts>>
                /\ HostIs(r, c)'
                /\ Members(r)' = {c}
       /\ \A r \in Rooms :
             (last' = <<"cleanup-timer", r>> /\ Members(r) # {})
             => UNCHANGED <<roomParticipants, roomHosts>>]_vars

\* a session has founded anew a room whose cleanup task is still pending
C13_Witness ==
    /\ last[1] = "join-room"
    /\ CleanupPending(last[3])
    /\ HostIs(last[3], last[2])
    /\ Members(last[3]) = {last[2]}
    /\ EmitsOf(emitted, "user-joined") # <<>>

(* C14: when 51 connection attempts from one origin arrive within a        *)
(* 60-second window, the first 50 are allowed and the 51st is denied: an   *)
(* attempt that finds fewer than 50 attempts of its origin in the window   *)
(* is allowed, one that finds 50 is denied.                                *)
C14_Threshold ==
    [][\A ip \in Origins :
          (last'[1] = "connection" /\ last'[2] = ip)
          => /\ InWindow(ip) < Limit => last'[3] = "allowed"
             /\ InWindow(ip) = Limit => last'[3] = "denied"]_vars

(* C15: the verdict on a connection attempt at time now depends only on    *)
(* the attempts of its own origin recorded within the trailing 60 seconds: *)
(* below the threshold of those it is allowed, above it denied, whatever   *)
(* older attempts and attempts of other origins are recorded.              *)
C15_WindowOnly ==
    [][\A ip \in Origins :
          (last'[1] = "connection" /\ last'[2] = ip)
          => /\ InWindow(ip) < Limit => last'[3] = "allowed"
             /\ InWindow(ip) > Limit => last'[3] = "denied"]_vars

\* an attempt has been allowed although its origin had more attempts on
\* record than the threshold, all of them a window old or older, and
\* another origin has attempts on record
C15_Witness ==
    /\ last[1] = "connection"
    /\ last[3] = "allowed"
    /\ last[4] > Limit
    /\ \E ip \in Origins \ {last[2]} : InWindow(ip) > 0

(* C16: in every reachable state there is at most one armed (unfired,      *)
(* uncancelled) cleanup task per room; arming cleanup for a room that      *)
(* already has an armed task cancels that task before the new one is       *)
(* armed.                                                                  *)
C16_Debounce ==
    [][/\ \A r \in Rooms : timeouts'[r] <= 1
       /\ \A c \in Sessions, r \in Rooms :
             (/\ \/ last' = <<"leave-room", c, r>>
                 \/ /\ last' = <<"disconnect", c>>
                    /\ MapHas(userInfo, c)
                    /\ userInfo[c].roomId = r
              /\ CleanupPending(r))
             => /\ r \in cleared'
                /\ timeouts'[r] = 1
                /\ cleanupTimers'[r] = "armed"]_vars

\* a leave has re-armed the cleanup of a room whose task was still pending
C16_Witness ==
    /\ last[1] \in {"leave-room", "disconnect"}
    /\ cleared # {}
    /\ \A r \in cleared : timeouts[r] = 1 /\ cleanupTimers[r] = "armed"

(* C17: for every room, in every state in which no cleanup task of the     *)
(* room is pending, a host is recorded if and only if the member set is    *)
(* non-empty; no room keeps a recorded host once its member set is empty   *)
(* and its cleanup has fired.                                              *)
C17_HostIffMembers ==
    \A r \in Rooms :
        ~CleanupPending(r) => (MapHas(roomHosts, r) <=> Members(r) # {})

\* the cleanup of an empty room has fired and left no host, while another
\* room, whose cleanup fired with members present, keeps its host
C17_Witness ==
    /\ last[1] = "cleanup-timer"
    /\ ~CleanupPending(last[2])
    /\ Members(last[2]) = {}
    /\ ~MapHas(roomHosts, last[2])
    /\ \E q \in Rooms :
          /\ MapHas(cleanupTimers, q)
          /\ cleanupTimers[q] = "fired"
          /\ Members(q) # {}
          /\ MapHas(roomHosts, q)

(* C18: the existing-users message sent to a requester lists exactly the   *)
(* sessions that were in the room's member set before the requester was    *)
(* added and that have a presence entry, each with its presence display    *)
(* name, never the requester itself, and is sent as one message only when  *)
(* that list is non-empty.                                                 *)
C18_ExistingUsersSnapshot ==
    [][/\ EmitsOf(emitted', "existing-users") # <<>> => last'[1] = "admit-user"
       /\ \A a \in Sessions, b \in Sessions, r \in Rooms :
             last' = <<"admit-user", a, r, b>>
             => LET ran == HostIs(r, a) /\ b \in sockets /\ MapHas(userInfo, b)
                    prior == {m \in Members(r) \ {b} : MapHas(userInfo, m)}
                    sent == EmitsOf(emitted', "existing-users")
                IN  IF ran /\ prior # {}
                    THEN /\ Len(sent) = 1
                         /\ sent[1].rcpt = {b}
                         /\ Len(sent[1].payload) = Cardinality(prior)
                         /\ Range(sent[1].payload) =
                               {<<m, userInfo[m].userName>> : m \in prior}
                    ELSE sent = <<>>]_vars

\* an admitted session has been sent the list of the members before it
C18_Witness ==
    /\ last[1] = "admit-user"
    /\ last[4] \in Members(last[3])
    /\ \E i \in 1..Len(emitted) :
          /\ emitted[i].event = "existing-users"
          /\ emitted[i].rcpt = {last[4]}
          /\ Len(emitted[i].payload) > 0
          /\ \A u \in Range(emitted[i].payload) :
                u[1] \in Members(last[3]) \ {last[4]}

(* C19: each run of the admit procedure for requester s in room R delivers *)
(* user-joined{s} to every other current member of R and never to s, and a *)
(* member receives at most one user-joined{s} per period in which s is     *)
(* continuously a member of R: a run for an s that is already a member     *)
(* delivers nothing to a member that was in R when s joined (and so was    *)
(* told then).                                                             *)
C19_UserJoinedOnce ==
    [][\A i \in 1..Len(emitted'), s \in Sessions, r \in Rooms :
          (/\ emitted'[i].event = "user-joined"
           /\ emitted'[i].payload[1] = s
           /\ emitted'[i].to = r)
          => /\ emitted'[i].rcpt = Members(r)' \ {s}
             /\ s \in Members(r)
                => \A m \in emitted'[i].rcpt : ~JoinedBefore(r, m, s)]_vars

(* C20: in every reachable state, every session in room R's member set has *)
(* a presence entry and that entry's roomId is R.                          *)
C20_PresenceMatchesRegistry ==
    \A r \in Rooms : \A s \in Members(r) :
        MapHas(userInfo, s) /\ userInfo[s].roomId = r

(* C21: when a session that is pending approval for room R (presence entry *)
(* for R, not a member of R) disconnects or leaves R, its presence entry   *)
(* is deleted while every room's member set and every room's recorded host *)
(* are left unchanged.                                                     *)
C21_PendingDeparts ==
    [][\A c \in Sessions, r \in Rooms :
          (Pending(c, r) /\ last' \in {<<"disconnect", c>>, <<"leave-room", c, r>>})
          => /\ ~MapHas(userInfo', c)
             /\ UNCHANGED <<roomParticipants, roomHosts>>]_vars

\* an applicant has disconnected (user-left went to the room its presence
\* entry named) while that room keeps its host as its only member
C21_Witness ==
    /\ last[1] = "disconnect"
    /\ ~MapHas(userInfo, last[2])
    /\ \E i \in 1..Len(emitted) :
          /\ emitted[i].event = "user-left"
          /\ emitted[i].payload[1] = last[2]
          /\ MapHas(roomHosts, emitted[i].to)
          /\ roomHosts[emitted[i].to] \in emitted[i].rcpt
          /\ roomParticipants[emitted[i].to] = <<roomHosts[emitted[i].to]>>

(* C22: an offer, answer or ice-candidate is delivered to exactly the      *)
(* named destination session (to nobody when that session is gone), tagged *)
(* with the sender's session id, whatever the room membership or presence  *)
(* of either party, and the handler leaves the presence table, all member  *)
(* sets, all hosts and all cleanup timers unchanged.                       *)
C22_RelayToDestination ==
    [][\A c \in Sessions, d \in Sessions :
          \A k \in {"offer", "answer", "ice-candidate"} :
             last' = <<k, c, d>>
             => /\ Len(emitted') = 1
                /\ emitted'[1].event = k
                /\ emitted'[1].payload = <<c>>
                /\ emitted'[1].rcpt = {d} \cap sockets
                /\ UNCHANGED coord]_vars

\* a message has been relayed between two sessions that have no presence
\* entry and are members of no room
C22_Witness ==
    /\ last[1] \in {"offer", "answer", "ice-candidate"}
    /\ last[3] \in Sessions \ {last[2]}
    /\ emitted[1].rcpt = {last[3]}
    /\ emitted[1].payload = <<last[2]>>
    /\ \A s \in {last[2], last[3]} :
          ~MapHas(userInfo, s) /\ \A r \in Rooms : s \notin Members(r)

(* C23: when a cleanup task for room R fires, it deletes R's member set    *)
(* and host pointer only if R's member set is empty at firing time; if R   *)
(* has members at firing time, R's member set and recorded host are left   *)
(* unchanged.                                                              *)
C23_CleanupOnlyWhenEmpty ==
    [][\A r \in Rooms :
          last' = <<"cleanup-timer", r>>
          => IF Members(r) = {}
             THEN /\ ~MapHas(roomParticipants', r)
                  /\ ~MapHas(roomHosts', r)
                  /\ \A q \in Rooms \ {r} :
                        /\ Members(q)' = Members(q)
                        /\ MapHas(roomHosts', q) = MapHas(roomHosts, q)
             ELSE UNCHANGED <<roomParticipants, roomHosts>>]_vars

\* a cleanup task has fired on a room with members, which keeps them and
\* its host
C23_Witness ==
    /\ last[1] = "cleanup-timer"
    /\ Members(last[2]) # {}
    /\ MapHas(roomHosts, last[2])
    /\ roomHosts[last[2]] \in Members(last[2])
    /\ cleanupTimers[last[2]] = "fired"

(* C24: the handlers running one at a time, in whatever order, no session  *)
(* becomes host of a room through the empty-room path while the room has a *)
(* host or a member (two sessions never both found the room without the    *)
(* first having left), and a join to a room that another session has just  *)
(* founded leaves that session the one host and sole member and the joiner  *)
(* pending.                                                                *)
C24_OneFounder ==
    [][\A c \in Sessions, r \in Rooms, n \in Names :
          last' = <<"join-room", c, r, n>>
          => /\ (HostIs(r, c)' /\ ~HostIs(r, c))
                => (~MapHas(roomHosts, r) /\ Members(r) = {})
             /\ \A h \in Sessions \ {c} :
                   (HostIs(r, h) /\ Members(r) = {h})
                   => /\ HostIs(r, h)'
                      /\ Members(r)' = {h}
                      /\ Pending(c, r)']_vars

\* two sessions have joined the same room: the first is its host and sole
\* member, the second has just been put on hold
C24_Witness ==
    /\ last[1] = "join-room"
    /\ Pending(last[2], last[3])
    /\ \E h \in sockets \ {last[2]} :
          /\ HostIs(last[3], h)
          /\ Members(last[3]) = {h}
          /\ MapHas(userInfo, h)
          /\ userInfo[h].roomId = last[3]
    /\ Len(emitted) = 2
    /\ emitted[1].event = "waiting-for-approval"

(* C25: in every reachable state, if a connected session has a presence    *)
(* entry for room R but is not in R's member set, then R has a non-empty   *)
(* member set and a recorded host able to admit or reject it (a connected  *)
(* session that is a member of R).                                         *)
C25_NoStrandedApplicant ==
    \A s \in sockets, r \in Rooms :
        Pending(s, r)
        => /\ Members(r) # {}
           /\ MapHas(roomHosts, r)
           /\ roomHosts[r] \in sockets \cap Members(r)
====
